---- MODULE Spec2Model ----
(***************************************************************************)
(* Node deployment schema of terraform-provider-metakube                   *)
(* (metakube/resource_metakube_node_deployment_schema.go).                  *)
(*                                                                         *)
(* The file holds stateless validators and a declarative schema.  The      *)
(* state of the model is what the host framework holds while it drives     *)
(* them: the value it hands to a validator, and the value that comes back. *)
(* Go strings are sequences of one-character strings, so that prefix and   *)
(* substring tests are computed, character by character.                   *)
(***************************************************************************)
EXTENDS Integers, Sequences, FiniteSets, TLC

VARIABLES
    pc,         \* the host's position in the pass it is running
    key,        \* a label or tag key
    attr,       \* the map attribute a diff is about: labels, aws, openstack, azure
    oldv,       \* DiffSuppressFunc's old value
    newv,       \* DiffSuppressFunc's new value
    err,        \* result of matakubeResourceNodeDeploymentValidateLabelOrTag
    reserved,   \* result of matakubeResourceNodeDeploymentLabelOrTagReserved
    suppressed, \* result of a DiffSuppressFunc
    tags,       \* a labels or tags map handed to a ValidateFunc
    warns,      \* ValidateFunc's first result (named "strings" in the source)
    errs,       \* ValidateFunc's second result
    durv,       \* the value handed to isNonEmptyDurationString
    diags,      \* diag.Diagnostics coming back from validation
    config,     \* the raw configuration of the spec block
    cfgErrors,  \* the errors schema validation finds in config
    resolved    \* the values ResourceData.Get resolves for the defaulted fields

vars == <<pc, key, attr, oldv, newv, err, reserved, suppressed, tags, warns,
          errs, durv, diags, config, cfgErrors, resolved>>

keyVars == <<key, attr, oldv, newv, err, reserved, suppressed>>
mapVars == <<tags, warns, errs>>
durVars == <<durv>>
cfgVars == <<config, cfgErrors, resolved>>

\* What a variable holds while the pass that uses it is not running.
Idle == "idle"

-----------------------------------------------------------------------------
(* Bounds *)

\* Keys are concatenations of at most MaxFrags fragments.
MaxFrags == 2

-----------------------------------------------------------------------------
(* String literals of the source *)

S_metakube_cluster == <<"m", "e", "t", "a", "k", "u", "b", "e", "-", "c", "l", "u", "s", "t", "e", "r">>
S_system_project == <<"s", "y", "s", "t", "e", "m", "-", "p", "r", "o", "j", "e", "c", "t">>
S_system_cluster == <<"s", "y", "s", "t", "e", "m", "-", "c", "l", "u", "s", "t", "e", "r">>
S_system_slash_cluster == <<"s", "y", "s", "t", "e", "m", "/", "c", "l", "u", "s", "t", "e", "r">>
S_system_slash_project == <<"s", "y", "s", "t", "e", "m", "/", "p", "r", "o", "j", "e", "c", "t">>
S_kubernetes_io == <<"k", "u", "b", "e", "r", "n", "e", "t", "e", "s", ".", "i", "o">>
S_syseleven_de == <<"s", "y", "s", "e", "l", "e", "v", "e", "n", ".", "d", "e">>
S_metakube == <<"m", "e", "t", "a", "k", "u", "b", "e">>
S_system == <<"s", "y", "s", "t", "e", "m">>
S_forbidden == <<"f", "o", "r", "b", "i", "d", "d", "e", "n", " ", "t", "a", "g", " ", "o", "r", " ", "l", "a", "b", "e", "l", " ", "p", "r", "e", "f", "i", "x", " ">>

-----------------------------------------------------------------------------
(* strings.Contains *)

\* Whether sub occurs in s at (1-based) position i.
HasPrefixAt(s, i, sub) ==
    /\ i + Len(sub) - 1 <= Len(s)
    /\ \A j \in 1..Len(sub) : s[i + j - 1] = sub[j]

\* strings.Index scanning from position i: the first position at which sub
\* occurs, 0 when there is none (Go: 0-based, -1 when there is none).
RECURSIVE IndexFrom(_, _, _)
IndexFrom(s, sub, i) ==
    IF i + Len(sub) - 1 > Len(s) THEN 0
    ELSE IF HasPrefixAt(s, i, sub) THEN i
    ELSE IndexFrom(s, sub, i + 1)

StringsContains(s, sub) == IndexFrom(s, sub, 1) >= 1

-----------------------------------------------------------------------------
(* matakubeResourceNodeDeploymentLabelOrTagReserved *)

\* The slice the function ranges over.
ReservedSubstrings ==
    << S_metakube_cluster, S_system_project, S_system_cluster,
       S_system_slash_cluster, S_system_slash_project,
       S_kubernetes_io, S_syseleven_de >>

\* The range loop from index i: return true at the first substring contained.
RECURSIVE ReservedLoop(_, _, _)
ReservedLoop(path, list, i) ==
    IF i > Len(list) THEN FALSE
    ELSE IF StringsContains(path, list[i]) THEN TRUE
    ELSE ReservedLoop(path, list, i + 1)

\* Mutant: the loop stops one element early, kubernetes.io/syseleven.de slip.
ReservedDropsLast(path) ==
    ReservedLoop(path, SubSeq(ReservedSubstrings, 1, Len(ReservedSubstrings) - 1), 1)

matakubeResourceNodeDeploymentLabelOrTagReserved(path) ==
    ReservedLoop(path, ReservedSubstrings, 1)

-----------------------------------------------------------------------------
(* matakubeResourceNodeDeploymentValidateLabelOrTag *)

\* The regular expression ^(syseleven\.de|metakube|system|kubernetes\.io)([/\-])
\* as the sequence of its two groups behind the ^ anchor: an alternation of
\* literals (the escaped dots are literal dots), then a character class.
ForbiddenPrefixRegexp ==
    [ anchored |-> TRUE,
      items |-> << [ kind |-> "alt", chars |-> {},
                     words |-> {S_syseleven_de, S_metakube, S_system, S_kubernetes_io} ],
                   [ kind |-> "class", chars |-> {"/", "-"}, words |-> {} ] >> ]

\* The positions at which a match of items, begun at position i of s, can end.
RECURSIVE MatchEnds(_, _, _)
MatchEnds(items, s, i) ==
    IF items = <<>> THEN {i}
    ELSE LET h == Head(items)
             next == IF h.kind = "alt"
                     THEN {i + Len(w) : w \in {x \in h.words : HasPrefixAt(s, i, x)}}
                     ELSE IF i <= Len(s) /\ s[i] \in h.chars THEN {i + 1} ELSE {}
         IN  UNION {MatchEnds(Tail(items), s, j) : j \in next}

\* regexp.Regexp.MatchString: a match anywhere, or at the start under ^.
MatchString(re, s) ==
    IF re.anchored THEN MatchEnds(re.items, s, 1) # {}
    ELSE \E i \in 1..(Len(s) + 1) : MatchEnds(re.items, s, i) # {}

\* Go's nil error, and fmt.Errorf's error.
NilError == [isNil |-> TRUE, msg |-> <<>>]
Errorf(msg) == [isNil |-> FALSE, msg |-> msg]

\* Mutant: the ^ anchor is lost.
ValidateUnanchored(k) ==
    IF MatchString([ForbiddenPrefixRegexp EXCEPT !.anchored = FALSE], k)
    THEN Errorf(S_forbidden \o k)
    ELSE NilError

matakubeResourceNodeDeploymentValidateLabelOrTag(k) ==
    IF MatchString(ForbiddenPrefixRegexp, k)
    THEN Errorf(S_forbidden \o k)
    ELSE NilError

-----------------------------------------------------------------------------
(* DiffSuppressFunc and the attribute keys the host passes to it *)

S_labels_path == <<"s", "p", "e", "c", ".", "0", ".", "t", "e", "m", "p", "l", "a", "t", "e", ".", "0", ".", "l", "a", "b", "e", "l", "s", ".">>
S_aws_tags_path == <<"s", "p", "e", "c", ".", "0", ".", "t", "e", "m", "p", "l", "a", "t", "e", ".", "0", ".", "c", "l", "o", "u", "d", ".", "0", ".", "a", "w", "s", ".", "0", ".", "t", "a", "g", "s", ".">>
S_openstack_tags_path == <<"s", "p", "e", "c", ".", "0", ".", "t", "e", "m", "p", "l", "a", "t", "e", ".", "0", ".", "c", "l", "o", "u", "d", ".", "0", ".", "o", "p", "e", "n", "s", "t", "a", "c", "k", ".", "0", ".", "t", "a", "g", "s", ".">>
S_azure_tags_path == <<"s", "p", "e", "c", ".", "0", ".", "t", "e", "m", "p", "l", "a", "t", "e", ".", "0", ".", "c", "l", "o", "u", "d", ".", "0", ".", "a", "z", "u", "r", "e", ".", "0", ".", "t", "a", "g", "s", ".">>

MapAttrs == {"labels", "aws", "openstack", "azure"}

\* The host names a map element by the attribute's path, a dot, and the key.
AttrPath(a) ==
    CASE a = "labels"    -> S_labels_path
      [] a = "aws"       -> S_aws_tags_path
      [] a = "openstack" -> S_openstack_tags_path
      [] a = "azure"     -> S_azure_tags_path

AttrKey(a, k) == AttrPath(a) \o k

\* The four closures.
LabelsDiffSuppressFunc(k, old, new, d) ==
    matakubeResourceNodeDeploymentLabelOrTagReserved(k)

AWSTagsDiffSuppressFunc(k, old, new, d) ==
    matakubeResourceNodeDeploymentLabelOrTagReserved(k)

OpenstackTagsDiffSuppressFunc(k, old, new, d) ==
    matakubeResourceNodeDeploymentLabelOrTagReserved(k)

AzureTagsDiffSuppressFunc(k, old, new, d) ==
    matakubeResourceNodeDeploymentLabelOrTagReserved(k)

\* The DiffSuppressFunc wired to map attribute a.
MapDiffSuppressFunc(a, k, old, new, d) ==
    CASE a = "labels"    -> LabelsDiffSuppressFunc(k, old, new, d)
      [] a = "aws"       -> AWSTagsDiffSuppressFunc(k, old, new, d)
      [] a = "openstack" -> OpenstackTagsDiffSuppressFunc(k, old, new, d)
      [] a = "azure"     -> AzureTagsDiffSuppressFunc(k, old, new, d)

-----------------------------------------------------------------------------
(* Inputs of the key pass *)

Fragments ==
    { S_metakube_cluster, S_system_project, S_system_cluster,
      S_system_slash_cluster, S_system_slash_project,
      S_kubernetes_io, S_syseleven_de, S_metakube, S_system,
      <<"/">>, <<"a">> }

RECURSIVE Concats(_)
Concats(n) ==
    IF n = 0 THEN {<<>>}
    ELSE LET prev == Concats(n - 1)
         IN  prev \cup {p \o f : p \in prev, f \in Fragments}

Keys == Concats(MaxFrags)

\* Old and new values of a map element; the functions never read them.
Values == {"v1", "v2"}

\* Resource data as far as a DiffSuppressFunc could read it.
ResourceDatas == {"d1", "d2"}

-----------------------------------------------------------------------------
(* The key pass: validate a key, ask whether it is reserved, diff it *)

InitKey ==
    /\ pc = "key"
    /\ key \in Keys
    /\ attr = Idle /\ oldv = Idle /\ newv = Idle
    /\ err = NilError /\ reserved = FALSE /\ suppressed = FALSE
    /\ tags = Idle /\ warns = <<>> /\ errs = <<>>
    /\ durv = Idle /\ diags = <<>>
    /\ config = Idle /\ cfgErrors = {} /\ resolved = Idle

ValidateLabelOrTag ==
    /\ pc = "key"
    /\ err' = matakubeResourceNodeDeploymentValidateLabelOrTag(key)
    /\ pc' = "validated"
    /\ UNCHANGED <<key, attr, oldv, newv, reserved, suppressed>>
    /\ UNCHANGED <<mapVars, durVars, diags, cfgVars>>

LabelOrTagReserved ==
    /\ pc = "validated"
    /\ reserved' = matakubeResourceNodeDeploymentLabelOrTagReserved(key)
    /\ pc' = "checked"
    /\ UNCHANGED <<key, attr, oldv, newv, err, suppressed>>
    /\ UNCHANGED <<mapVars, durVars, diags, cfgVars>>

MapDiffSuppress ==
    /\ pc = "checked"
    /\ \E a \in MapAttrs, old \in Values, new \in Values, d \in ResourceDatas :
          /\ attr' = a
          /\ oldv' = old
          /\ newv' = new
          /\ suppressed' = MapDiffSuppressFunc(a, AttrKey(a, key), old, new, d)
    /\ pc' = "diffed"
    /\ UNCHANGED <<key, err, reserved>>
    /\ UNCHANGED <<mapVars, durVars, diags, cfgVars>>

NextKey == ValidateLabelOrTag \/ LabelOrTagReserved \/ MapDiffSuppress

SpecKey == InitKey /\ [][NextKey]_vars

-----------------------------------------------------------------------------
(* Claims about the key pass *)

\* Whether sub occurs somewhere in s.
Occurs(sub, s) ==
    \E i \in 0..(Len(s) - Len(sub)) : \A j \in 1..Len(sub) : s[i + j] = sub[j]

StartsWith(s, p) == Len(s) >= Len(p) /\ SubSeq(s, 1, Len(p)) = p

EndsWith(s, p) == Len(s) >= Len(p) /\ SubSeq(s, Len(s) - Len(p) + 1, Len(s)) = p

\* The forbidden-prefix pattern in words: one of the four names, then / or -.
ForbiddenPrefix(s) ==
    \E p \in {S_syseleven_de, S_metakube, S_system, S_kubernetes_io} :
        \E c \in {"/", "-"} : StartsWith(s, p \o <<c>>)

\* Some one of the seven reserved substrings occurs in s.
HasReservedSubstring(s) ==
    \E sub \in { S_metakube_cluster, S_system_project, S_system_cluster,
                 S_system_slash_cluster, S_system_slash_project,
                 S_kubernetes_io, S_syseleven_de } : Occurs(sub, s)

\* C1: the validator returns an error naming the key exactly for the keys
\* that start with syseleven.de, metakube, system or kubernetes.io followed
\* by / or -, and nil for every other key.
C1_ValidateMatchesForbiddenPrefix ==
    pc \in {"validated", "checked", "diffed"} =>
        /\ ForbiddenPrefix(key) => ~err.isNil /\ EndsWith(err.msg, key) /\ key # <<>>
        /\ ~ForbiddenPrefix(key) => err = NilError

\* C1 witness: a key under metakube/ is rejected, and the error names it.
C1_Witness ==
    /\ pc = "validated"
    /\ key = S_metakube \o <<"/">>
    /\ err = [isNil |-> FALSE, msg |-> S_forbidden \o key]

\* C2: the reserved predicate is true exactly for the strings in which one of
\* the seven reserved substrings occurs, and each of the four map attributes'
\* diff suppression is that predicate of the attribute key, whatever the old
\* value, the new value and the resource data.
C2_ReservedIsSubstringTest ==
    /\ pc \in {"checked", "diffed"} => (reserved <=> HasReservedSubstring(key))
    /\ pc = "diffed" => (suppressed <=> HasReservedSubstring(AttrKey(attr, key)))

C2_Witness ==
    /\ pc = "diffed"
    /\ attr = "azure"
    /\ key = <<"a">> \o S_system_slash_project
    /\ ~StartsWith(AttrKey(attr, key), S_system_slash_project)
    /\ oldv # newv
    /\ suppressed

\* C8 as claimed: a key the validator accepts holds no reserved substring.
C8_AcceptedKeyNeverReserved ==
    pc \in {"checked", "diffed"} => (err.isNil => ~reserved)

-----------------------------------------------------------------------------
(* ValidateFunc of the labels and tags maps *)

\* Entries a map may hold, at most MaxEntries of them.
MaxEntries == 2

\* The loop "for key := range l" over the keys in the order the Go runtime
\* yields them (order, a sequence of the map's keys): an error is appended
\* for each key the validator rejects.  Values are not read.
RECURSIVE ValidateRange(_, _, _)
ValidateRange(l, order, errors) ==
    IF order = <<>> THEN errors
    ELSE LET e == matakubeResourceNodeDeploymentValidateLabelOrTag(Head(order))
         IN  ValidateRange(l, Tail(order),
                           IF ~e.isNil THEN Append(errors, e) ELSE errors)

\* Mutant: the loop returns at the first error.
RECURSIVE ValidateRangeFirstOnly(_, _, _)
ValidateRangeFirstOnly(l, order, errors) ==
    IF order = <<>> \/ errors # <<>> THEN errors
    ELSE LET e == matakubeResourceNodeDeploymentValidateLabelOrTag(Head(order))
         IN  ValidateRangeFirstOnly(l, Tail(order),
                                    IF ~e.isNil THEN Append(errors, e) ELSE errors)

LabelsValidateFirstOnly(v, k, order) ==
    [strings |-> <<>>, errors |-> ValidateRangeFirstOnly(v, order, <<>>)]

\* The four closures; both results are named, "strings" is never assigned.
LabelsValidateFunc(v, k, order) ==
    [strings |-> <<>>, errors |-> ValidateRange(v, order, <<>>)]

AWSTagsValidateFunc(v, k, order) ==
    [strings |-> <<>>, errors |-> ValidateRange(v, order, <<>>)]

OpenstackTagsValidateFunc(v, k, order) ==
    [strings |-> <<>>, errors |-> ValidateRange(v, order, <<>>)]

AzureTagsValidateFunc(v, k, order) ==
    [strings |-> <<>>, errors |-> ValidateRange(v, order, <<>>)]

\* The ValidateFunc wired to map attribute a.
MapValidateFunc(a, v, k, order) ==
    CASE a = "labels"    -> LabelsValidateFunc(v, k, order)
      [] a = "aws"       -> AWSTagsValidateFunc(v, k, order)
      [] a = "openstack" -> OpenstackTagsValidateFunc(v, k, order)
      [] a = "azure"     -> AzureTagsValidateFunc(v, k, order)

\* The orders in which a range loop can visit the key set S.
Orders(S) ==
    {f \in [1..Cardinality(S) -> S] : \A i, j \in 1..Cardinality(S) : i # j => f[i] # f[j]}

MapKeys ==
    { <<"a">>,
      S_kubernetes_io \o <<"/", "a">>,
      S_system \o <<"-", "a">>,
      S_metakube,
      <<"a", "/">> \o S_syseleven_de \o <<"/", "a">> }

MapValues == { <<"v">>, S_kubernetes_io \o <<"/", "v">> }

Maps ==
    UNION { [K -> MapValues] : K \in {X \in SUBSET MapKeys : Cardinality(X) <= MaxEntries} }

InitMap ==
    /\ pc = "map"
    /\ tags \in Maps
    /\ attr \in MapAttrs
    /\ warns = <<>> /\ errs = <<>>
    /\ key = Idle /\ oldv = Idle /\ newv = Idle
    /\ err = NilError /\ reserved = FALSE /\ suppressed = FALSE
    /\ durv = Idle /\ diags = <<>>
    /\ config = Idle /\ cfgErrors = {} /\ resolved = Idle

ValidateMap ==
    /\ pc = "map"
    /\ \E order \in Orders(DOMAIN tags) :
          LET r == MapValidateFunc(attr, tags, AttrPath(attr), order)
          IN  /\ warns' = r.strings
              /\ errs' = r.errors
    /\ pc' = "mapValidated"
    /\ UNCHANGED <<tags, keyVars, durVars, diags, cfgVars>>

NextMap == ValidateMap

SpecMap == InitMap /\ [][NextMap]_vars

\* Entries of the map whose key starts with a forbidden prefix.
OffendingKeys(m) == {k \in DOMAIN m : ForbiddenPrefix(k)}

\* Entries of the map whose key or value starts with a forbidden prefix.
OffendingEntries(m) == {k \in DOMAIN m : ForbiddenPrefix(k) \/ ForbiddenPrefix(m[k])}

\* The errors in errors that name key k.
ErrorsNaming(errors, k) ==
    {i \in 1..Len(errors) : ~errors[i].isNil /\ errors[i].msg = S_forbidden \o k}

\* C9 as claimed: one error for every entry whose key or value starts with a
\* forbidden prefix, naming the entry's key; no other errors; no warnings.
C9_OneErrorPerOffendingKeyOrValue ==
    pc = "mapValidated" =>
        /\ warns = <<>>
        /\ Len(errs) = Cardinality(OffendingEntries(tags))
        /\ \A k \in OffendingEntries(tags) : Cardinality(ErrorsNaming(errs, k)) = 1

\* C9 amended: one error for every entry whose key starts with a forbidden
\* prefix, naming that key; values are not inspected; no other errors, so
\* none for a map without such a key; no warnings.
C9_OneErrorPerOffendingKey ==
    pc = "mapValidated" =>
        /\ warns = <<>>
        /\ Len(errs) = Cardinality(OffendingKeys(tags))
        /\ \A k \in OffendingKeys(tags) : Cardinality(ErrorsNaming(errs, k)) = 1

\* C9 witness: two offending keys out of order, and a value with a forbidden
\* prefix that draws no error.
C9_Witness ==
    /\ pc = "mapValidated"
    /\ DOMAIN tags = {S_kubernetes_io \o <<"/", "a">>, S_system \o <<"-", "a">>}
    /\ tags[S_system \o <<"-", "a">>] = S_kubernetes_io \o <<"/", "v">>
    /\ Len(errs) = 2
    /\ errs[1].msg = S_forbidden \o S_system \o <<"-", "a">>

-----------------------------------------------------------------------------
(* time.ParseDuration, which isNonEmptyDurationString calls *)

\* Strings handed to the duration validator have at most MaxDurLen characters
\* (the examples of the documentation aside).
MaxDurLen == 4

S_invalid_duration == <<"t", "i", "m", "e", ":", " ", "i", "n", "v", "a", "l", "i", "d", " ", "d", "u", "r", "a", "t", "i", "o", "n", " ">>
S_missing_unit == <<"t", "i", "m", "e", ":", " ", "m", "i", "s", "s", "i", "n", "g", " ", "u", "n", "i", "t", " ", "i", "n", " ", "d", "u", "r", "a", "t", "i", "o", "n", " ">>
S_unknown_unit == <<"t", "i", "m", "e", ":", " ", "u", "n", "k", "n", "o", "w", "n", " ", "u", "n", "i", "t", " ">>
S_in_duration == <<" ", "i", "n", " ", "d", "u", "r", "a", "t", "i", "o", "n", " ">>
S_could_not_parse == <<"c", "o", "u", "l", "d", " ", "n", "o", "t", " ", "p", "a", "r", "s", "e", " ", "'">>
S_quote_colon == <<"'", ":", " ">>
S_should_be == <<"S", "h", "o", "u", "l", "d", " ", "b", "e", " ", "a", " ", "d", "u", "r", "a", "t", "i", "o", "n", " ", "s", "t", "r", "i", "n", "g">>

IsDigit(c) == c \in {"0", "1", "2", "3", "4", "5", "6", "7", "8", "9"}

\* The keys of time's unitMap.  The two micro signs (U+00B5, U+03BC) are
\* written by code point.
UnitMapKeys ==
    { <<"n", "s">>, <<"u", "s">>, <<"U+00B5", "s">>, <<"U+03BC", "s">>,
      <<"m", "s">>, <<"s">>, <<"m">>, <<"h">> }

\* quote(s) of package time, for strings without characters to escape.
Quote(s) == <<"\"">> \o s \o <<"\"">>

Drop(s, n) == SubSeq(s, n + 1, Len(s))

\* leadingInt, leadingFraction: the number of leading digits consumed.
RECURSIVE LeadingDigits(_)
LeadingDigits(s) ==
    IF s # <<>> /\ IsDigit(s[1]) THEN 1 + LeadingDigits(Tail(s)) ELSE 0

\* The unit: the characters up to the next '.' or digit.
RECURSIVE UnitLen(_)
UnitLen(s) ==
    IF s # <<>> /\ ~(s[1] = "." \/ IsDigit(s[1])) THEN 1 + UnitLen(Tail(s)) ELSE 0

\* The loop "for s != ''" over the groups [0-9]*(\.[0-9]*)?[a-z]+ .  The
\* overflow exits are left out: the shortest string that takes one is
\* "2562048h", and no string handed in here has eight characters.
RECURSIVE ParseGroups(_, _)
ParseGroups(s, orig) ==
    IF s = <<>> THEN NilError
    ELSE IF ~(s[1] = "." \/ IsDigit(s[1]))
         THEN Errorf(S_invalid_duration \o Quote(orig))
    ELSE LET n1   == LeadingDigits(s)
             pre  == n1 > 0
             s2   == Drop(s, n1)
             dot  == s2 # <<>> /\ s2[1] = "."
             s3   == IF dot THEN Tail(s2) ELSE s2
             n2   == IF dot THEN LeadingDigits(s3) ELSE 0
             post == n2 > 0
             s4   == Drop(s3, n2)
             i    == UnitLen(s4)
             u    == SubSeq(s4, 1, i)
         IN  IF ~pre /\ ~post THEN Errorf(S_invalid_duration \o Quote(orig))
             ELSE IF i = 0 THEN Errorf(S_missing_unit \o Quote(orig))
             ELSE IF u \notin UnitMapKeys
                  THEN Errorf(S_unknown_unit \o Quote(u) \o S_in_duration \o Quote(orig))
             ELSE ParseGroups(Drop(s4, i), orig)

\* time.ParseDuration, its error result.
ParseDuration(orig) ==
    LET s == IF orig # <<>> /\ orig[1] \in {"-", "+"} THEN Tail(orig) ELSE orig
    IN  IF s = <<"0">> THEN NilError
        ELSE IF s = <<>> THEN Errorf(S_invalid_duration \o Quote(orig))
        ELSE ParseGroups(s, orig)

-----------------------------------------------------------------------------
(* isNonEmptyDurationString *)

\* A Go interface{} value.
GoString(s) == [type |-> "string", val |-> s]
GoInt(n) == [type |-> "int", val |-> n]
GoBool(b) == [type |-> "bool", val |-> b]
GoNil == [type |-> "nil", val |-> 0]

Diagnostic(severity, summary, p) ==
    [Severity |-> severity, Summary |-> summary, AttributePath |-> p]

\* Mutant: a value that is no string passes.
DurationStringOnlyStrings(v, p) ==
    IF v.type = "string"
    THEN LET e == ParseDuration(v.val)
         IN  IF ~e.isNil
             THEN << Diagnostic("Error",
                                S_could_not_parse \o v.val \o S_quote_colon \o e.msg, p) >>
             ELSE <<>>
    ELSE <<>>

isNonEmptyDurationString(v, p) ==
    IF v.type = "string"
    THEN LET e == ParseDuration(v.val)
         IN  IF ~e.isNil
             THEN << Diagnostic("Error",
                                S_could_not_parse \o v.val \o S_quote_colon \o e.msg, p) >>
             ELSE <<>>
    ELSE << Diagnostic("Error", S_should_be, p) >>

-----------------------------------------------------------------------------
(* The duration pass *)

DurAlphabet == {"0", "5", ".", "s", "m", "n", "a", "-"}

RECURSIVE StringsUpTo(_, _)
StringsUpTo(alphabet, n) ==
    IF n = 0 THEN {<<>>}
    ELSE LET prev == StringsUpTo(alphabet, n - 1)
         IN  prev \cup {Append(p, c) : p \in prev, c \in alphabet}

\* Strings outside the alphabet: the documented 5s, 2m, 120s and abc, the
\* empty string, a plus sign and a unit of two letters.
DurExamples ==
    { <<"5", "s">>, <<"2", "m">>, <<"1", "2", "0", "s">>, <<"a", "b", "c">>, <<>>,
      <<"+", "2", "h">>, <<"2", "u", "s">> }

DurationInputs ==
    {GoString(s) : s \in StringsUpTo(DurAlphabet, MaxDurLen) \cup DurExamples}
        \cup {GoInt(5), GoInt(0), GoBool(TRUE), GoNil}

\* The two fields the validator is attached to.
DurationPaths == {"instance_ready_check_period", "instance_ready_check_timeout"}

InitDur ==
    /\ pc = "dur"
    /\ durv \in DurationInputs
    /\ diags = <<>>
    /\ attr = Idle
    /\ key = Idle /\ oldv = Idle /\ newv = Idle
    /\ err = NilError /\ reserved = FALSE /\ suppressed = FALSE
    /\ tags = Idle /\ warns = <<>> /\ errs = <<>>
    /\ config = Idle /\ cfgErrors = {} /\ resolved = Idle

ValidateDuration ==
    /\ pc = "dur"
    /\ \E p \in DurationPaths :
          /\ attr' = p
          /\ diags' = isNonEmptyDurationString(durv, p)
    /\ pc' = "durValidated"
    /\ UNCHANGED <<durv, key, oldv, newv, err, reserved, suppressed, mapVars, cfgVars>>

NextDur == ValidateDuration

SpecDur == InitDur /\ [][NextDur]_vars

-----------------------------------------------------------------------------
(* Claims about the duration pass *)

\* The duration syntax [-+]?([0-9]*(\.[0-9]*)?unit)+ with at least one digit
\* in each number, or [-+]?0, generated up to the length of the longest input.
DurDigits == {"0", "1", "2", "5"}

DurUnits == { <<"n", "s">>, <<"u", "s">>, <<"m", "s">>, <<"s">>, <<"m">>, <<"h">> }

DurLangLen == IF MaxDurLen > 4 THEN MaxDurLen ELSE 4

\* Digit strings of at most n characters.
DurDigitStrings(n) == IF n < 0 THEN {} ELSE StringsUpTo(DurDigits, n)

\* Numbers of at most n characters: digits, or digits '.' digits with a digit
\* on one side at least.
DurNumbers(n) ==
    {a \in DurDigitStrings(n) : a # <<>>}
        \cup UNION { {a \o <<".">> \o c : c \in DurDigitStrings(n - 1 - Len(a))} \ {<<".">>}
                     : a \in DurDigitStrings(n - 1) }

\* Groups, a number and a unit, of at most n characters.
DurGroups(n) ==
    UNION { {x \o u : x \in DurNumbers(n - Len(u))} : u \in DurUnits }

\* One to k groups in a row, of at most DurLangLen characters together.
RECURSIVE DurBodies(_)
DurBodies(k) ==
    IF k = 1 THEN DurGroups(DurLangLen)
    ELSE LET prev == DurBodies(k - 1)
         IN  prev \cup UNION { {b \o g : g \in DurGroups(DurLangLen - Len(b))} : b \in prev }

DurationLanguage ==
    LET unsigned == DurBodies(DurLangLen \div 2) \cup {<<"0">>}
    IN  unsigned \cup {<<c>> \o b : c \in {"-", "+"}, b \in unsigned}

\* C3: no diagnostics for a string that is a duration; exactly one diagnostic,
\* of severity error, for a string that is none (the empty string and "abc"
\* among them) and for a value that is no string.
C3_DurationValidator ==
    pc = "durValidated" =>
        IF durv.type = "string" /\ durv.val \in DurationLanguage
        THEN diags = <<>>
        ELSE Len(diags) = 1 /\ diags[1].Severity = "Error"

\* C3 witness: a string of two groups passes.
C3_Witness ==
    /\ pc = "durValidated"
    /\ durv = GoString(<<"5", "m", "5", "s">>)
    /\ diags = <<>>

-----------------------------------------------------------------------------
(* The schema: the fields the claims are about, as the source declares them *)

\* A schema.Schema with nothing set.
EmptySchema ==
    [ Type |-> "", Optional |-> FALSE, Required |-> FALSE,
      HasDefault |-> FALSE, Default |-> GoNil,
      ConflictsWith |-> {}, RequiredWith |-> {}, ExactlyOneOf |-> {},
      IntAtLeast |-> {}, ValidateDiag |-> FALSE,
      MinItems |-> 0, MaxItems |-> 0 ]

P_replicas == "spec.0.replicas"
P_min_replicas == "spec.0.min_replicas"
P_max_replicas == "spec.0.max_replicas"
P_cloud == "spec.0.template.0.cloud"
P_bringyourown == "spec.0.template.0.cloud.0.bringyourown"
P_aws == "spec.0.template.0.cloud.0.aws"
P_openstack == "spec.0.template.0.cloud.0.openstack"
P_azure == "spec.0.template.0.cloud.0.azure"
P_operating_system == "spec.0.template.0.operating_system"
P_ubuntu == "spec.0.template.0.operating_system.0.ubuntu"
P_flatcar == "spec.0.template.0.operating_system.0.flatcar"
P_aws_assign_public_ip == "spec.0.template.0.cloud.0.aws.0.assign_public_ip"
P_azure_assign_public_ip == "spec.0.template.0.cloud.0.azure.0.assign_public_ip"
P_check_period == "spec.0.template.0.cloud.0.openstack.0.instance_ready_check_period"
P_check_timeout == "spec.0.template.0.cloud.0.openstack.0.instance_ready_check_timeout"

\* Mutant: replicas declared without ConflictsWith.
ReplicasSchemaNoConflicts ==
    [EmptySchema EXCEPT !.Type = "TypeInt", !.Optional = TRUE,
                        !.HasDefault = TRUE, !.Default = GoInt(3)]

ReplicasSchema ==
    [EmptySchema EXCEPT !.Type = "TypeInt", !.Optional = TRUE,
                        !.HasDefault = TRUE, !.Default = GoInt(3),
                        !.ConflictsWith = {"spec.0.min_replicas", "spec.0.max_replicas"}]

MinReplicasSchema ==
    [EmptySchema EXCEPT !.Type = "TypeInt", !.Optional = TRUE,
                        !.IntAtLeast = {1},
                        !.RequiredWith = {"spec.0.max_replicas"}]

MaxReplicasSchema ==
    [EmptySchema EXCEPT !.Type = "TypeInt", !.Optional = TRUE,
                        !.IntAtLeast = {1},
                        !.RequiredWith = {"spec.0.min_replicas"}]

CloudSchema ==
    [EmptySchema EXCEPT !.Type = "TypeList", !.Required = TRUE, !.MaxItems = 1]

BringyourownSchema ==
    [EmptySchema EXCEPT !.Type = "TypeMap", !.Optional = TRUE]

AWSBlockSchema ==
    [EmptySchema EXCEPT !.Type = "TypeList", !.Optional = TRUE, !.MaxItems = 1]

OpenstackBlockSchema ==
    [EmptySchema EXCEPT !.Type = "TypeList", !.Optional = TRUE, !.MaxItems = 1]

\* metakubeResourceNodeDeploymentAzureSchema, the block itself.
AzureBlockSchema ==
    [EmptySchema EXCEPT !.Type = "TypeList", !.Optional = TRUE, !.MaxItems = 1]

OperatingSystemSchema ==
    [EmptySchema EXCEPT !.Type = "TypeList", !.Required = TRUE,
                        !.MinItems = 1, !.MaxItems = 1]

UbuntuSchema ==
    [EmptySchema EXCEPT !.Type = "TypeList", !.Optional = TRUE,
                        !.MinItems = 1, !.MaxItems = 1,
                        !.ExactlyOneOf = {"spec.0.template.0.operating_system.0.ubuntu",
                                          "spec.0.template.0.operating_system.0.flatcar"}]

FlatcarSchema ==
    [EmptySchema EXCEPT !.Type = "TypeList", !.Optional = TRUE,
                        !.MinItems = 1, !.MaxItems = 1,
                        !.ExactlyOneOf = {"spec.0.template.0.operating_system.0.ubuntu",
                                          "spec.0.template.0.operating_system.0.flatcar"}]

\* Mutant: the two blocks declared ConflictsWith each other, not ExactlyOneOf.
OperatingSystemElemConflictsOnly ==
    [ ubuntu  |-> [UbuntuSchema EXCEPT !.ExactlyOneOf = {},
                       !.ConflictsWith = {"spec.0.template.0.operating_system.0.flatcar"}],
      flatcar |-> [FlatcarSchema EXCEPT !.ExactlyOneOf = {},
                       !.ConflictsWith = {"spec.0.template.0.operating_system.0.ubuntu"}] ]

\* The Elem of operating_system.
OperatingSystemElem ==
    [ ubuntu |-> UbuntuSchema, flatcar |-> FlatcarSchema ]

\* The Elem of cloud.
CloudElem ==
    [ bringyourown |-> BringyourownSchema, aws |-> AWSBlockSchema,
      openstack |-> OpenstackBlockSchema, azure |-> AzureBlockSchema ]

AWSAssignPublicIPSchema ==
    [EmptySchema EXCEPT !.Type = "TypeBool", !.Optional = TRUE,
                        !.HasDefault = TRUE, !.Default = GoBool(TRUE)]

AzureAssignPublicIPSchema ==
    [EmptySchema EXCEPT !.Type = "TypeBool", !.Optional = TRUE,
                        !.HasDefault = TRUE, !.Default = GoBool(FALSE)]

\* Mutant: the unit is missing from the default.
CheckPeriodSchemaNoUnit ==
    [EmptySchema EXCEPT !.Type = "TypeString", !.Optional = TRUE,
                        !.HasDefault = TRUE, !.Default = GoString(<<"5">>),
                        !.ValidateDiag = TRUE]

InstanceReadyCheckPeriodSchema ==
    [EmptySchema EXCEPT !.Type = "TypeString", !.Optional = TRUE,
                        !.HasDefault = TRUE, !.Default = GoString(<<"5", "s">>),
                        !.ValidateDiag = TRUE]

InstanceReadyCheckTimeoutSchema ==
    [EmptySchema EXCEPT !.Type = "TypeString", !.Optional = TRUE,
                        !.HasDefault = TRUE, !.Default = GoString(<<"1", "2", "0", "s">>),
                        !.ValidateDiag = TRUE]

\* The schema of an attribute, by its path in the resource.
SchemaAt(path) ==
    CASE path = P_replicas          -> ReplicasSchema
      [] path = P_min_replicas      -> MinReplicasSchema
      [] path = P_max_replicas      -> MaxReplicasSchema
      [] path = P_cloud             -> CloudSchema
      [] path = P_bringyourown      -> CloudElem.bringyourown
      [] path = P_aws               -> CloudElem.aws
      [] path = P_openstack         -> CloudElem.openstack
      [] path = P_azure             -> CloudElem.azure
      [] path = P_operating_system  -> OperatingSystemSchema
      [] path = P_ubuntu            -> OperatingSystemElem.ubuntu
      [] path = P_flatcar           -> OperatingSystemElem.flatcar
      [] path = P_aws_assign_public_ip   -> AWSAssignPublicIPSchema
      [] path = P_azure_assign_public_ip -> AzureAssignPublicIPSchema
      [] path = P_check_period      -> InstanceReadyCheckPeriodSchema
      [] path = P_check_timeout     -> InstanceReadyCheckTimeoutSchema

\* The block an attribute is declared in ("" for the spec block itself).
ParentOf(path) ==
    CASE path \in {P_replicas, P_min_replicas, P_max_replicas, P_cloud, P_operating_system} -> ""
      [] path \in {P_bringyourown, P_aws, P_openstack, P_azure} -> P_cloud
      [] path \in {P_ubuntu, P_flatcar} -> P_operating_system
      [] path = P_aws_assign_public_ip -> P_aws
      [] path = P_azure_assign_public_ip -> P_azure
      [] path \in {P_check_period, P_check_timeout} -> P_openstack

-----------------------------------------------------------------------------
(* The host framework: configuration lookup, schema validation, defaults *)

MaxReplicas == 2

AllPaths ==
    { P_replicas, P_min_replicas, P_max_replicas, P_cloud, P_bringyourown, P_aws,
      P_openstack, P_azure, P_operating_system, P_ubuntu, P_flatcar,
      P_aws_assign_public_ip, P_azure_assign_public_ip, P_check_period, P_check_timeout }

\* A block that is present in the configuration.
GoBlock == [type |-> "block", val |-> 0]

\* A validation error of the framework: the attribute and the rule broken.
SchemaError(k, rule) == [attr |-> k, rule |-> rule]

\* ResourceConfig.Get: whether the configuration sets k.
ConfigHas(c, k) == k \in DOMAIN c

\* ExactlyOneOf: of the listed keys and k, one is set, no more and no less.
validateExactlyOneAttribute(k, schema, c) ==
    IF schema.ExactlyOneOf = {} THEN {}
    ELSE LET specified == {x \in schema.ExactlyOneOf \cup {k} : ConfigHas(c, x)}
         IN  IF Cardinality(specified) = 1 THEN {} ELSE {SchemaError(k, "ExactlyOneOf")}

\* RequiredWith: with k set, the listed keys are set as well.
validateRequiredWithAttribute(k, schema, c) ==
    IF \A x \in schema.RequiredWith : ConfigHas(c, x) THEN {}
    ELSE {SchemaError(k, "RequiredWith")}

\* ConflictsWith: with k set, none of the listed keys is set.
validateConflictingAttributes(k, schema, c) ==
    IF \E x \in schema.ConflictsWith : ConfigHas(c, x)
    THEN {SchemaError(k, "ConflictsWith")}
    ELSE {}

\* The value's own validators: validation.IntAtLeast, ValidateDiagFunc.
validateType(k, raw, schema) ==
    {SchemaError(k, "IntAtLeast") : n \in {m \in schema.IntAtLeast : raw.val < m}}
        \cup (IF schema.ValidateDiag /\ isNonEmptyDurationString(raw, k) # <<>>
              THEN {SchemaError(k, "ValidateDiagFunc")} ELSE {})

\* schemaMap.validate of one attribute; the first rule broken ends it.
validate(k, schema, c) ==
    LET one  == validateExactlyOneAttribute(k, schema, c)
        with == validateRequiredWithAttribute(k, schema, c)
        conf == validateConflictingAttributes(k, schema, c)
    IN  IF one # {} THEN one
        ELSE IF ~ConfigHas(c, k)
             THEN (IF schema.Required THEN {SchemaError(k, "Required")} ELSE {})
        ELSE IF with # {} THEN with
        ELSE IF conf # {} THEN conf
        ELSE validateType(k, c[k], schema)

\* Validation of the whole spec block: every attribute of every block present.
ValidateSpec(c) ==
    UNION { validate(k, SchemaAt(k), c) :
              k \in {x \in AllPaths : ParentOf(x) = "" \/ ConfigHas(c, ParentOf(x))} }

\* ResourceData.GetOkConfigured: the configured value, and whether there is one.
GetOkConfigured(d, k) ==
    IF ConfigHas(d, k) THEN [v |-> d[k], ok |-> TRUE] ELSE [v |-> GoNil, ok |-> FALSE]

\* ResourceData.Get: the configured value, or the schema's Default.
ResourceDataGet(d, k) ==
    IF ConfigHas(d, k) THEN d[k]
    ELSE IF SchemaAt(k).HasDefault THEN SchemaAt(k).Default
    ELSE GoNil

-----------------------------------------------------------------------------
(* DiffSuppressFunc of replicas *)

\* Mutant: the test of max_replicas is forgotten.
ReplicasSuppressMinOnly(k, old, n, d) ==
    LET r1 == GetOkConfigured(d, "spec.0.min_replicas")
    IN  r1.ok /\ r1.v.val > 0

ReplicasDiffSuppressFunc(k, old, n, d) ==
    LET r1 == GetOkConfigured(d, "spec.0.min_replicas")
        r2 == GetOkConfigured(d, "spec.0.max_replicas")
    IN  r1.ok /\ r1.v.val > 0 /\ r2.ok /\ r2.v.val > 0

-----------------------------------------------------------------------------
(* The configuration pass: validate, then diff replicas *)

NoConfig == [x \in {} |-> GoNil]

\* The configuration that sets the paths in ps to the value v.
Setting(ps, v) == [x \in ps |-> v]

\* An optional integer: the empty sequence, or a sequence of one number.
OptInts == {<<>>} \cup {<<n>> : n \in 0..MaxReplicas}

OptInt(path, o) == IF o = <<>> THEN NoConfig ELSE Setting({path}, GoInt(o[1]))

\* A block, with some of its sub-blocks, or no block (the empty sequence).
OptBlocks(subs) == {<<>>} \cup {<<x>> : x \in SUBSET subs}

OptBlock(path, o) ==
    IF o = <<>> THEN NoConfig ELSE Setting({path} \cup o[1], GoBlock)

SchemaConfigs ==
    { OptInt(P_replicas, r) @@ OptInt(P_min_replicas, mn) @@ OptInt(P_max_replicas, mx)
        @@ OptBlock(P_operating_system, os) @@ OptBlock(P_cloud, cl) :
      r \in OptInts, mn \in OptInts, mx \in OptInts,
      os \in OptBlocks({P_ubuntu, P_flatcar}),
      cl \in OptBlocks({P_bringyourown, P_aws, P_openstack, P_azure}) }

\* Old and new values of replicas in a diff, as the host formats them.
ReplicaStrings == {"3", "5"}

InitSchema ==
    /\ pc = "config"
    /\ config \in SchemaConfigs
    /\ cfgErrors = {} /\ resolved = Idle
    /\ attr = Idle
    /\ key = Idle /\ oldv = Idle /\ newv = Idle
    /\ err = NilError /\ reserved = FALSE /\ suppressed = FALSE
    /\ tags = Idle /\ warns = <<>> /\ errs = <<>>
    /\ durv = Idle /\ diags = <<>>

ValidateConfig ==
    /\ pc = "config"
    /\ cfgErrors' = ValidateSpec(config)
    /\ pc' = "cfgValidated"
    /\ UNCHANGED <<config, resolved, keyVars, mapVars, durVars, diags>>

ReplicasDiffSuppress ==
    /\ pc = "cfgValidated"
    /\ \E old \in ReplicaStrings, new \in ReplicaStrings :
          /\ oldv' = old
          /\ newv' = new
          /\ suppressed' = ReplicasDiffSuppressFunc(P_replicas, old, new, config)
    /\ attr' = P_replicas
    /\ pc' = "cfgDiffed"
    /\ UNCHANGED <<key, err, reserved, cfgVars, mapVars, durVars, diags>>

NextSchema == ValidateConfig \/ ReplicasDiffSuppress

SpecSchema == InitSchema /\ [][NextSchema]_vars

-----------------------------------------------------------------------------
(* Claims about the configuration pass *)

Validated == pc \in {"cfgValidated", "cfgDiffed", "cfgRead"}

IsSet(k) == k \in DOMAIN config

\* The backends the cloud block of config holds.
BackendsSet == {k \in {P_bringyourown, P_aws, P_openstack, P_azure} : IsSet(k)}

\* C4: a configuration that sets replicas together with min_replicas or
\* max_replicas is rejected, by a rule of one of the three fields; an accepted
\* configuration uses the fixed count (min and max both unset) or the pair
\* (min and max both set, replicas unset), never both.
C4_ReplicasExcludeMinMax ==
    Validated =>
        /\ IsSet(P_replicas) /\ (IsSet(P_min_replicas) \/ IsSet(P_max_replicas))
              => \E e \in cfgErrors :
                    /\ e.attr \in {P_replicas, P_min_replicas, P_max_replicas}
                    /\ e.rule \in {"ConflictsWith", "RequiredWith"}
        /\ cfgErrors = {}
              => \/ ~IsSet(P_min_replicas) /\ ~IsSet(P_max_replicas)
                 \/ ~IsSet(P_replicas) /\ IsSet(P_min_replicas) /\ IsSet(P_max_replicas)

\* C4 witness: replicas with the full pair, rejected for the conflict alone.
C4_Witness ==
    /\ pc = "cfgValidated"
    /\ IsSet(P_replicas) /\ IsSet(P_min_replicas) /\ IsSet(P_max_replicas)
    /\ cfgErrors = {SchemaError(P_replicas, "ConflictsWith")}

\* C5: with the operating_system block present, neither ubuntu nor flatcar,
\* and both, are each rejected by the exactly-one rule; exactly one of them
\* breaks no rule of the two blocks.
C5_ExactlyOneOperatingSystem ==
    Validated /\ IsSet(P_operating_system) =>
        LET n == Cardinality({k \in {P_ubuntu, P_flatcar} : IsSet(k)})
            osErrors == {e \in cfgErrors : e.attr \in {P_ubuntu, P_flatcar}}
        IN  /\ n # 1 => cfgErrors # {} /\ \E e \in osErrors : e.rule = "ExactlyOneOf"
            /\ n = 1 => osErrors = {}

\* C5 witness: no block of the two, rejected for that alone.
C5_Witness ==
    /\ pc = "cfgValidated"
    /\ IsSet(P_operating_system) /\ ~IsSet(P_ubuntu) /\ ~IsSet(P_flatcar)
    /\ \A e \in cfgErrors : e.attr \in {P_ubuntu, P_flatcar}
    /\ cfgErrors # {}

\* C6 as claimed: a cloud block that sets two or more backends, or none,
\* is rejected.
C6_ExactlyOneCloudBackend ==
    Validated /\ IsSet(P_cloud) =>
        (Cardinality(BackendsSet) # 1 => cfgErrors # {})

\* C10: a diff of replicas is suppressed exactly when min_replicas and
\* max_replicas are both configured with values above 0, whatever the old and
\* new values; in an accepted configuration it is suppressed only with
\* replicas unset.
C10_ReplicasSuppressedIffAutoscaling ==
    pc = "cfgDiffed" =>
        /\ suppressed <=>
              /\ IsSet(P_min_replicas) /\ config[P_min_replicas].val > 0
              /\ IsSet(P_max_replicas) /\ config[P_max_replicas].val > 0
        /\ cfgErrors = {} /\ suppressed => ~IsSet(P_replicas)

\* C10 witness: an accepted autoscaling configuration with a differing
\* replicas value, suppressed.
C10_Witness ==
    /\ pc = "cfgDiffed"
    /\ cfgErrors = {}
    /\ IsSet(P_min_replicas) /\ IsSet(P_max_replicas)
    /\ oldv # newv
    /\ suppressed

-----------------------------------------------------------------------------
(* The defaults pass: validate, then read the fields that have defaults *)

DefaultedPaths ==
    { P_replicas, P_aws_assign_public_ip, P_azure_assign_public_ip,
      P_check_period, P_check_timeout }

\* An optional value of a field: unset, or one of vs.
OptValues(vs) == {<<>>} \cup {<<v>> : v \in vs}

OptValue(path, o) == IF o = <<>> THEN NoConfig ELSE Setting({path}, o[1])

OptBools == OptValues({GoBool(TRUE), GoBool(FALSE)})

OptDurations ==
    OptValues({GoString(<<"5", "s">>), GoString(<<"1", "0", "m">>), GoString(<<"a", "b", "c">>)})

\* One operating system, one backend, and the defaulted fields of that
\* backend set or left unset.
DefaultConfigs ==
    LET base(backend) == Setting({P_operating_system, P_ubuntu, P_cloud, backend}, GoBlock)
    IN  UNION { { OptInt(P_replicas, r) @@ base(P_aws) @@ OptValue(P_aws_assign_public_ip, ip)
                    : ip \in OptBools }
                \cup { OptInt(P_replicas, r) @@ base(P_azure)
                         @@ OptValue(P_azure_assign_public_ip, ip) : ip \in OptBools }
                \cup { OptInt(P_replicas, r) @@ base(P_openstack)
                         @@ OptValue(P_check_period, pd) @@ OptValue(P_check_timeout, tm)
                         : pd \in OptDurations, tm \in OptDurations }
                : r \in OptInts }

InitDefaults ==
    /\ pc = "config"
    /\ config \in DefaultConfigs
    /\ cfgErrors = {} /\ resolved = Idle
    /\ attr = Idle
    /\ key = Idle /\ oldv = Idle /\ newv = Idle
    /\ err = NilError /\ reserved = FALSE /\ suppressed = FALSE
    /\ tags = Idle /\ warns = <<>> /\ errs = <<>>
    /\ durv = Idle /\ diags = <<>>

\* The provider reads each defaulted field of the blocks present.
ReadDefaulted ==
    /\ pc = "cfgValidated"
    /\ resolved' = [k \in {x \in DefaultedPaths : ParentOf(x) = "" \/ ConfigHas(config, ParentOf(x))}
                      |-> ResourceDataGet(config, k)]
    /\ pc' = "cfgRead"
    /\ UNCHANGED <<config, cfgErrors, keyVars, mapVars, durVars, diags>>

NextDefaults == ValidateConfig \/ ReadDefaulted

SpecDefaults == InitDefaults /\ [][NextDefaults]_vars

\* C7: a field left unset resolves to its default: "5s" for
\* instance_ready_check_period, "120s" for instance_ready_check_timeout, 3 for
\* replicas, true for the AWS and false for the Azure assign_public_ip; and
\* the duration validator of the two OpenStack fields accepts their defaults.
C7_Defaults ==
    pc = "cfgRead" =>
        \A k \in DOMAIN resolved :
            ~IsSet(k) =>
                /\ k = P_replicas => resolved[k] = [type |-> "int", val |-> 3]
                /\ k = P_aws_assign_public_ip => resolved[k] = [type |-> "bool", val |-> TRUE]
                /\ k = P_azure_assign_public_ip => resolved[k] = [type |-> "bool", val |-> FALSE]
                /\ k = P_check_period =>
                      /\ resolved[k] = [type |-> "string", val |-> <<"5", "s">>]
                      /\ isNonEmptyDurationString(resolved[k], k) = <<>>
                /\ k = P_check_timeout =>
                      /\ resolved[k] = [type |-> "string", val |-> <<"1", "2", "0", "s">>]
                      /\ isNonEmptyDurationString(resolved[k], k) = <<>>

\* C7 witness: an accepted OpenStack configuration with nothing set that has
\* a default.
C7_Witness ==
    /\ pc = "cfgRead"
    /\ cfgErrors = {}
    /\ IsSet(P_openstack)
    /\ DOMAIN resolved = {P_replicas, P_check_period, P_check_timeout}
    /\ \A k \in DOMAIN resolved : ~IsSet(k)

====
